---- MODULE Spec2Model ----
(***************************************************************************)
(* Model of the recording loop of src/src/opencv.py (function main).       *)
(* One loop iteration (lines 81-148) is one tick: a frame is read, the     *)
(* detector yields a presence boolean, the detection / timer / sink flags  *)
(* are updated, and the frame is written when a session is open.  The      *)
(* finally block (lines 150-154) is the cleanup step.                      *)
(***************************************************************************)
EXTENDS Integers, Sequences, FiniteSets

\* ---- bounds of the model -------------------------------------------------
MaxTicks == 9      \* loop iterations explored
MaxTime == 9       \* largest clock value explored (seconds)
MaxStep == 2       \* largest clock advance between two iterations
MaxLiveTicks == 6  \* iterations explored by LiveSpec before presence vanishes

\* ---- program constants ---------------------------------------------------
SECONDS_TO_RECORD_AFTER_DETECTION == 5
MAX_CAMERA_INDEX == 5

\* The grace period is a configuration parameter; besides the configured
\* value the scenarios use 3, and 0 is the degenerate setting.
GraceValues == {0, 3, SECONDS_TO_RECORD_AFTER_DETECTION}

NoSink == 0        \* Python None for `out`; sinks are numbered 1, 2, ...
NoTime == -1       \* Python None for `detection_stopped_time`
NoCamera == -1     \* Python None for `cam_idx`

VARIABLES
    pc,                      \* "loop" | "cleanup" | "done"
    grace,                   \* configured grace period
    clock,                   \* time.time(), whole seconds, non-decreasing
    tickNo,                  \* completed loop iterations
    detection,               \* line 68
    detection_stopped_time,  \* line 69
    timer_started,           \* line 70
    out,                     \* line 72
    releases,                \* releases[i] = release() calls on sink i
    names,                   \* names[i] = file name given to sink i (line 112)
    starts,                  \* "Started recording" messages printed
    stops,                   \* "Stop Recording!" messages printed
    fails,                   \* "Warning: Failed to open" messages printed
    last,                    \* what the latest iteration did
    loss,                    \* the current absence episode (from the inputs)
    scenA,                   \* matched prefix of scenario A, -1 = diverged
    scenB,                   \* matched prefix of scenario B, -1 = diverged
    scenAStart,              \* scenario A: iteration of the latest start message
    scenAStop,               \* scenario A: iteration of the latest stop message
    fin,                     \* what the finally block found and did
    gone,                    \* presence has vanished for good (LiveSpec only)
    cam                      \* find_camera: index, captures, result

vars == <<pc, grace, clock, tickNo, detection, detection_stopped_time,
          timer_started, out, releases, names, starts, stops, fails, last,
          loss, scenA, scenB, scenAStart, scenAStop, fin, gone, cam>>

\* everything but the position and the camera
loopVars == <<grace, clock, tickNo, detection, detection_stopped_time,
              timer_started, out, releases, names, starts, stops, fails,
              last, loss, scenA, scenB, scenAStart, scenAStop, fin, gone>>

\* ---- the controller state as a record -------------------------------------
CtlState ==
    [detection |-> detection,
     detection_stopped_time |-> detection_stopped_time,
     timer_started |-> timer_started,
     out |-> out,
     releases |-> releases,
     names |-> names,
     starts |-> starts, stops |-> stops, fails |-> fails,
     attempted |-> FALSE, wrote |-> FALSE, sink |-> NoSink]

\* Sinks that were opened and not yet released.
OpenSinks(rel) == {i \in 1..Len(rel) : rel[i] = 0}

\* out.release() on sink o                                   (lines 128, 152)
Release(rel, o) == [rel EXCEPT ![o] = @ + 1]

\* line 124: time.time() - detection_stopped_time >= SECONDS_TO_RECORD...
GraceElapsedStrict(now, t0, g) == now - t0 > g
GraceElapsedEarly(now, t0, g) == now - t0 >= g - 1
GraceElapsed(now, t0, g) == now - t0 >= g

\* line 106: strftime("%d-%m-%Y-%H-%M-%S") of the time of the start, a stamp
\* with a resolution of one second; the model's clock counts whole
\* seconds, and the stamp is its <<minute, second>> (the day, month, year
\* and hour fields do not change within the explored time).
FileNameNoSeconds(now) == <<now \div 60, 0>>
FileName(now) == <<now \div 60, now % 60>>

\* lines 105-116: the writer opened
OpenSucceeded(s, now) ==
    [s EXCEPT !.detection = TRUE,
              !.out = Len(s.releases) + 1,
              !.releases = Append(s.releases, 0),
              !.names = Append(s.names, FileName(now)),
              !.starts = @ + 1,
              !.attempted = TRUE]

\* lines 117-120: the writer did not open
OpenFailedKeepsDetection(s) ==
    [s EXCEPT !.detection = TRUE, !.out = NoSink, !.fails = @ + 1,
              !.attempted = TRUE]
OpenFailed(s) ==
    [s EXCEPT !.detection = FALSE, !.out = NoSink, !.fails = @ + 1,
              !.attempted = TRUE]

\* lines 125-130: the stop transition
StopKeepsSink(s) ==
    [s EXCEPT !.detection = FALSE, !.timer_started = FALSE,
              !.stops = @ + 1]
StopKeepsOut(s) ==
    [s EXCEPT !.detection = FALSE, !.timer_started = FALSE,
              !.releases = IF s.out # NoSink THEN Release(@, s.out) ELSE @,
              !.stops = @ + 1]
StopKeepsDetection(s) ==
    [s EXCEPT !.timer_started = FALSE,
              !.releases = IF s.out # NoSink THEN Release(@, s.out) ELSE @,
              !.out = NoSink,
              !.stops = @ + 1]
StopTransition(s) ==
    [s EXCEPT !.detection = FALSE, !.timer_started = FALSE,
              !.releases = IF s.out # NoSink THEN Release(@, s.out) ELSE @,
              !.out = NoSink,
              !.stops = @ + 1]

\* lines 101-120: at least one face or body in the frame
PresenceKeepsTimer(s, openOk, now) ==
    IF s.detection
    THEN s
    ELSE IF openOk THEN OpenSucceeded(s, now) ELSE OpenFailed(s)
PresenceBranch(s, openOk, now) ==
    IF s.detection
    THEN [s EXCEPT !.timer_started = FALSE]
    ELSE IF openOk THEN OpenSucceeded(s, now) ELSE OpenFailed(s)

\* lines 122-133: nothing in the frame while detection is set
AbsenceArmNoTime(s, now, g) ==
    IF s.timer_started
    THEN IF GraceElapsed(now, s.detection_stopped_time, g)
         THEN StopTransition(s)
         ELSE s
    ELSE [s EXCEPT !.timer_started = TRUE]
AbsenceArmAndCheck(s, now, g) ==
    LET a == IF s.timer_started THEN s
             ELSE [s EXCEPT !.timer_started = TRUE,
                            !.detection_stopped_time = now]
    IN  IF GraceElapsed(now, a.detection_stopped_time, g)
        THEN StopTransition(a)
        ELSE a
AbsenceRearm(s, now, g) ==
    IF s.timer_started /\ GraceElapsed(now, s.detection_stopped_time, g)
    THEN StopTransition(s)
    ELSE [s EXCEPT !.timer_started = TRUE, !.detection_stopped_time = now]
AbsenceBranch(s, now, g) ==
    IF s.timer_started
    THEN IF GraceElapsed(now, s.detection_stopped_time, g)
         THEN StopTransition(s)
         ELSE s
    ELSE [s EXCEPT !.timer_started = TRUE, !.detection_stopped_time = now]

\* line 135: the condition of out.write(frame)
ShouldWriteNoGrace(s) == s.detection /\ s.out # NoSink /\ ~s.timer_started
ShouldWrite(s) == s.detection /\ s.out # NoSink

\* lines 135-137
WriteFrame(s) ==
    IF ShouldWrite(s) THEN [s EXCEPT !.wrote = TRUE, !.sink = s.out] ELSE s

\* lines 101-137: one pass of the state machine and the frame write
ControllerTimerFirst(s, presence, openOk, now, g) ==
    WriteFrame(IF /\ s.detection /\ s.timer_started
                  /\ GraceElapsed(now, s.detection_stopped_time, g)
               THEN StopTransition(s)
               ELSE IF presence THEN PresenceBranch(s, openOk, now)
               ELSE IF s.detection THEN AbsenceBranch(s, now, g)
               ELSE s)
Controller(s, presence, openOk, now, g) ==
    WriteFrame(IF presence THEN PresenceBranch(s, openOk, now)
               ELSE IF s.detection THEN AbsenceBranch(s, now, g)
               ELSE s)

\* The three flag combinations, as a phase name.
Phase(d, t, o) ==
    IF ~d /\ ~t /\ o = NoSink THEN "Idle"
    ELSE IF d /\ ~t /\ o # NoSink THEN "Recording"
    ELSE IF d /\ t /\ o # NoSink THEN "StopPending"
    ELSE "Other"

\* lines 150-152: the finally block releases a sink that is still held
CleanupNoRelease(rel, o) == rel
CleanupRelease(rel, o) == IF o # NoSink THEN Release(rel, o) ELSE rel

\* ---- observers of the inputs (no counterpart in the program state) --------
NoLoss == [t0 |-> NoTime, sinks |-> {}, reached |-> FALSE]

\* The absence episode: t0 is the time of the tick where presence was lost
\* while a session was open, sinks the sinks open at that moment, reached
\* whether a later tick of the episode already saw now - t0 >= grace.
LossNext(presence, now) ==
    IF presence THEN NoLoss
    ELSE IF loss.t0 = NoTime
         THEN IF OpenSinks(releases) # {}
              THEN [t0 |-> now, sinks |-> OpenSinks(releases),
                    reached |-> FALSE]
              ELSE NoLoss
         ELSE [loss EXCEPT !.reached = @ \/ (now - loss.t0 >= grace)]

ScenarioA == <<FALSE, TRUE, TRUE, FALSE, FALSE, FALSE, FALSE, FALSE, FALSE>>
ScenarioB == <<TRUE, FALSE, TRUE, FALSE>>

\* Scenario A: ticks one second apart from time 0, grace 3, the sink opens.
ScenANext(presence, step, failed) ==
    IF /\ scenA >= 0 /\ scenA < Len(ScenarioA)
       /\ grace = 3 /\ step = 1 /\ ~failed
       /\ presence = ScenarioA[scenA + 1]
    THEN scenA + 1 ELSE -1

\* Scenario B: every return of presence comes less than grace after the loss.
ScenBNext(presence, now, failed) ==
    IF /\ scenB >= 0 /\ scenB < Len(ScenarioB)
       /\ ~failed
       /\ presence = ScenarioB[scenB + 1]
       /\ (presence /\ scenB > 0 => loss.t0 # NoTime /\ now - loss.t0 < grace)
    THEN scenB + 1 ELSE -1

\* ---- find_camera -------------------------------------------------------------
\* captures that were created and not released
CapsHeld(c) == {c.tried[k] : k \in 1..Len(c.tried)} \ c.released

\* lines 23-28: one pass of the for loop, for index c.i
ProbeNoRelease(c) ==
    IF c.i \in c.working
    THEN [c EXCEPT !.tried = Append(@, c.i), !.idx = c.i, !.returned = TRUE]
    ELSE [c EXCEPT !.tried = Append(@, c.i), !.i = @ + 1]
ProbeStep(c) ==
    IF c.i \in c.working
    THEN [c EXCEPT !.tried = Append(@, c.i), !.idx = c.i, !.returned = TRUE]
    ELSE [c EXCEPT !.tried = Append(@, c.i),
                   !.released = @ \cup {c.i},
                   !.i = @ + 1]

\* the camera state of a run whose first index opened
CamFound ==
    [i |-> 0, working |-> {0}, tried |-> <<0>>, released |-> {},
     idx |-> 0, returned |-> TRUE]

\* ---- the program ------------------------------------------------------------
\* lines 68-77: the variables of the loop before its first iteration
LoopInit ==
    /\ grace \in GraceValues
    /\ clock = 0
    /\ tickNo = 0
    /\ detection = FALSE
    /\ detection_stopped_time = NoTime
    /\ timer_started = FALSE
    /\ out = NoSink
    /\ releases = <<>>
    /\ names = <<>>
    /\ starts = 0 /\ stops = 0 /\ fails = 0
    /\ last = [presence |-> FALSE, phase |-> "Idle", attempted |-> FALSE,
               opened |-> FALSE, failed |-> FALSE, started |-> FALSE, stopped |-> FALSE,
               wrote |-> FALSE, sink |-> NoSink]
    /\ loss = NoLoss
    /\ scenA = 0
    /\ scenB = 0
    /\ scenAStart = 0
    /\ scenAStop = 0
    /\ fin = [reason |-> "none", held |-> {}, released |-> 0]
    /\ gone = [on |-> FALSE, open |-> {}]

\* the loop is entered with a camera found and the cascades loaded
Init ==
    /\ pc = "loop"
    /\ cam = CamFound
    /\ LoopInit

\* lines 81-148: one loop iteration that gets a frame and a detector answer.
\* step is the time that passed since the previous iteration, openOk the
\* answer of out.isOpened() when a writer is created, next the position
\* after line 147 and reason the way the loop is left, if it is.
Iteration(presence, openOk, step, next, reason) ==
    LET now == clock + step
        s == Controller(CtlState, presence, openOk, now, grace)
    IN  /\ pc = "loop"
        /\ tickNo < MaxTicks
        /\ now <= MaxTime
        /\ pc' = next
        /\ clock' = now
        /\ tickNo' = tickNo + 1
        /\ detection' = s.detection
        /\ detection_stopped_time' = s.detection_stopped_time
        /\ timer_started' = s.timer_started
        /\ out' = s.out
        /\ releases' = s.releases
        /\ names' = names      \* the file names are recorded by PlainStep only
        /\ starts' = s.starts
        /\ stops' = s.stops
        /\ fails' = s.fails
        /\ last' = [presence |-> presence,
                    phase |-> Phase(detection, timer_started, out),
                    attempted |-> s.attempted,
                    opened |-> s.attempted /\ openOk,
                    failed |-> s.fails > fails,
                    started |-> s.starts > starts,
                    stopped |-> s.stops > stops,
                    wrote |-> s.wrote,
                    sink |-> s.sink]
        /\ loss' = LossNext(presence, now)
        /\ scenA' = ScenANext(presence, step, s.fails > fails)
        /\ scenB' = ScenBNext(presence, now, s.fails > fails)
        /\ scenAStart' = IF scenA' < 0 THEN 0
                         ELSE IF s.starts > starts THEN tickNo + 1
                         ELSE scenAStart
        /\ scenAStop' = IF scenA' < 0 THEN 0
                        ELSE IF s.stops > stops THEN tickNo + 1
                        ELSE scenAStop
        /\ fin' = [fin EXCEPT !.reason = reason]
        /\ UNCHANGED <<grace, gone, cam>>

\* an iteration after which the loop continues (waitKey is not 'q')
Tick ==
    \E presence \in BOOLEAN, openOk \in BOOLEAN, step \in 0..MaxStep :
        Iteration(presence, openOk, step, "loop", "none")

\* lines 147-148: an iteration that ends with the quit key
TickQuit ==
    \E presence \in BOOLEAN, openOk \in BOOLEAN, step \in 0..MaxStep :
        Iteration(presence, openOk, step, "cleanup", "quit")

LeaveLoop(reason) ==
    /\ pc = "loop"
    /\ pc' = "cleanup"
    /\ fin' = [fin EXCEPT !.reason = reason]
    /\ UNCHANGED <<grace, clock, tickNo, detection, detection_stopped_time,
                   timer_started, out, releases, names, starts, stops,
                   fails, last, loss, scenA, scenB, scenAStart, scenAStop,
                   gone, cam>>

\* lines 81-85: cap.read() yields no frame
NoFrame == LeaveLoop("noframe")

\* lines 88-97: the conversion or a detector raises; the exception leaves
\* the try block before the state machine runs
DetectorRaises == LeaveLoop("detector")

\* lines 150-154: the finally block
Cleanup ==
    /\ pc = "cleanup"
    /\ pc' = "done"
    /\ releases' = CleanupRelease(releases, out)
    /\ fin' = [fin EXCEPT !.held = OpenSinks(releases),
                          !.released = IF releases' # releases THEN 1 ELSE 0]
    /\ cam' = [cam EXCEPT !.released = @ \cup {cam.idx}]      \* line 153
    /\ UNCHANGED <<grace, clock, tickNo, detection, detection_stopped_time,
                   timer_started, out, names, starts, stops, fails, last,
                   loss, scenA, scenB, scenAStart, scenAStop, gone>>

Next == Tick \/ TickQuit \/ NoFrame \/ DetectorRaises \/ Cleanup

Spec == Init /\ [][Next]_vars

\* the iterations of the loop alone, up to the quit key
TickNext == Tick \/ TickQuit

TickSpec == Init /\ [][TickNext]_vars

\* ---- runs in which frames keep arriving -------------------------------------
\* lines 81-137 as in Iteration, with the file names recorded and without
\* the observers of the inputs.
PlainStep(presence, openOk, step) ==
    LET now == clock + step
        s == Controller(CtlState, presence, openOk, now, grace)
    IN  /\ pc = "loop"
        /\ clock' = now
        /\ detection' = s.detection
        /\ detection_stopped_time' = s.detection_stopped_time
        /\ timer_started' = s.timer_started
        /\ out' = s.out
        /\ releases' = s.releases
        /\ names' = s.names
        /\ starts' = s.starts
        /\ stops' = s.stops
        /\ fails' = s.fails
        /\ UNCHANGED <<pc, grace, last, loss, scenA, scenB, scenAStart,
                       scenAStop, fin, cam>>

\* the latest time explored after presence has vanished: late enough for the
\* longest grace period to run out after a loss at MaxTime + MaxStep
LiveHorizon == MaxTime + 2 * MaxStep + SECONDS_TO_RECORD_AFTER_DETECTION

\* an iteration of the loop while presence may still come and go
LiveTick ==
    \E presence \in BOOLEAN, openOk \in BOOLEAN, step \in 0..MaxStep :
        /\ ~gone.on
        /\ tickNo < MaxLiveTicks
        /\ clock + step <= MaxTime
        /\ PlainStep(presence, openOk, step)
        /\ tickNo' = tickNo + 1
        /\ UNCHANGED gone

\* from here on the detector finds nothing in any frame
Vanish ==
    /\ pc = "loop"
    /\ ~gone.on
    /\ gone' = [on |-> TRUE, open |-> OpenSinks(releases)]
    /\ UNCHANGED <<pc, grace, clock, tickNo, detection, detection_stopped_time,
                   timer_started, out, releases, names, starts, stops, fails,
                   last, loss, scenA, scenB, scenAStart, scenAStop, fin, cam>>

\* an iteration without presence in a later second than the previous one
GoneTickAdvance ==
    \E step \in 1..MaxStep :
        /\ gone.on
        /\ clock + step <= LiveHorizon
        /\ PlainStep(FALSE, TRUE, step)
        /\ UNCHANGED <<tickNo, gone>>

\* an iteration without presence in the same second as the previous one
GoneTickSameSecond ==
    /\ gone.on
    /\ PlainStep(FALSE, TRUE, 0)
    /\ UNCHANGED <<tickNo, gone>>

LiveNext == LiveTick \/ Vanish \/ GoneTickAdvance \/ GoneTickSameSecond

\* The loop is `while True` and time passes: iterations in later seconds
\* keep happening as long as frames arrive.
LiveSpec == Init /\ [][LiveNext]_vars /\ WF_vars(GoneTickAdvance)

TypeOK ==
    /\ pc \in {"loop", "cleanup", "done"}
    /\ grace \in GraceValues
    /\ clock \in 0..MaxTime
    /\ tickNo \in 0..MaxTicks
    /\ detection \in BOOLEAN /\ timer_started \in BOOLEAN
    /\ detection_stopped_time \in {NoTime} \cup (0..MaxTime)
    /\ out \in 0..Len(releases)
    /\ starts \in Nat /\ stops \in Nat /\ fails \in Nat

\* ---- the start of main ---------------------------------------------------------
\* line 56: main calls find_camera; any set of indices may be the working ones
CamInit ==
    /\ pc = "find_camera"
    /\ cam \in [i : {0}, working : SUBSET (0..MAX_CAMERA_INDEX),
                 tried : {<<>>}, released : {{}}, idx : {NoCamera},
                 returned : {FALSE}]
    /\ LoopInit

\* lines 22-28: the for loop tries the next index; when it opens, find_camera
\* returns it and main goes on (lines 60-64)
ProbeCamera ==
    /\ pc = "find_camera"
    /\ cam.i <= MAX_CAMERA_INDEX
    /\ cam' = ProbeStep(cam)
    /\ pc' = IF cam'.returned THEN "load_cascades" ELSE "find_camera"
    /\ UNCHANGED loopVars

\* line 29 and lines 57-59: no index opened, find_camera returns
\* (None, None) and main raises SystemExit
NoCameraFound ==
    /\ pc = "find_camera"
    /\ cam.i > MAX_CAMERA_INDEX
    /\ cam' = [cam EXCEPT !.idx = NoCamera, !.returned = TRUE]
    /\ pc' = "exit"
    /\ UNCHANGED loopVars

\* lines 64-77: the cascades load and main reaches the loop
CascadesLoaded ==
    /\ pc = "load_cascades"
    /\ pc' = "loop"
    /\ UNCHANGED <<cam, loopVars>>

\* lines 64-66: the face cascade does not load and main raises SystemExit
CascadesFailed ==
    /\ pc = "load_cascades"
    /\ pc' = "exit"
    /\ UNCHANGED <<cam, loopVars>>

CamNext == ProbeCamera \/ NoCameraFound \/ CascadesLoaded \/ CascadesFailed

CamSpec == CamInit /\ [][CamNext]_vars

\* ---- properties -------------------------------------------------------------
\* an iteration of the loop was executed in this step
TickTaken == tickNo' = tickNo + 1

\* C1: at most one sink is open at any time; a sink is opened only when no
\* sink is held, and a held sink is replaced only after it was released.
C1_OneSessionAtATime ==
    /\ [](Cardinality(OpenSinks(releases)) <= 1)
    /\ [][Len(releases') > Len(releases)
            => out = NoSink /\ OpenSinks(releases) = {}]_vars
    /\ [][out # NoSink /\ out' # out => releases'[out] >= 1]_vars

\* a second session was opened after the first one, and it is the only one open
C1_Witness ==
    /\ Len(releases) >= 2
    /\ Cardinality(OpenSinks(releases)) = 1
    /\ out = Len(releases)

\* C2: after every iteration detection is False exactly when out is None,
\* also after a failed open and after a stop.
C2_IdleIffNoSession == (detection = FALSE) <=> (out = NoSink)

\* idle again after a stop, and an open has failed in the latest iteration
C2_Witness == last.failed /\ stops >= 1 /\ ~detection /\ out = NoSink

\* C3: while less than grace has passed since presence was lost, no iteration
\* stops or releases the session, and the session that was open at the loss
\* is still the one recorded; scenario B ends with one session and no stop.
C3_Debounce ==
    /\ [][TickTaken /\ loss.t0 # NoTime /\ clock' - loss.t0 < grace
            => /\ stops' = stops
               /\ releases' = releases
               /\ detection'
               /\ out' = out /\ out' \in loss.sinks
               /\ OpenSinks(releases') = loss.sinks]_vars
    /\ [](scenB = Len(ScenarioB)
            => starts = 1 /\ stops = 0 /\ out = 1 /\ detection
               /\ (pc # "done" => OpenSinks(releases) = {1}))

\* scenario B ran to its end: presence returned inside the grace period
C3_Witness == scenB = Len(ScenarioB) /\ pc = "loop" /\ timer_started

\* C4: when the loop is left with a sink open, the finally block releases it
\* once; when no sink is open, the finally block releases nothing.
C4_CleanupFinalizes ==
    pc = "done" =>
        /\ fin.held # {} =>
              fin.released = 1 /\ \A i \in fin.held : releases[i] = 1
        /\ fin.held = {} => fin.released = 0

\* the run ended on a detector exception while a session was open
C4_Witness == pc = "done" /\ fin.held # {} /\ fin.reason = "detector"

\* C5: no sink is released twice, and after the run every sink that was
\* opened has been released once.
C5_ReleasedExactlyOnce ==
    /\ \A i \in 1..Len(releases) : releases[i] <= 1
    /\ pc = "done" => \A i \in 1..Len(releases) : releases[i] = 1

\* a run that stopped one session and ended while the next one was open
C5_Witness ==
    pc = "done" /\ Len(releases) >= 2 /\ stops >= 1 /\ fin.released = 1

\* C6: the number of start messages equals the number of stop messages or
\* exceeds it by one.
C6_StartsVersusStops == stops <= starts /\ starts <= stops + 1

\* a second session is open after the first one was stopped
C6_Witness == starts = 2 /\ stops = 1 /\ detection

\* the sink did not open on an iteration with presence in the Idle phase
OpenFailedCase ==
    last.presence /\ last.phase = "Idle" /\ last.attempted /\ ~last.opened

\* C7: an iteration whose sink fails to open leaves the controller Idle with
\* the timer not armed, prints the warning and no start message, writes no
\* frame, and the next iteration with presence creates a writer again.
C7_OpenFailureStaysIdle ==
    /\ [](OpenFailedCase
            => /\ ~detection /\ out = NoSink /\ ~timer_started
               /\ OpenSinks(releases) = {}
               /\ last.failed /\ ~last.started /\ ~last.wrote)
    /\ [][OpenFailedCase /\ TickTaken /\ last'.presence
            => last'.attempted]_vars

\* the open failed on two iterations in a row
C7_Witness == OpenFailedCase /\ fails >= 2 /\ starts = 0

\* C8 as stated: in an absence episode the stop has fired as soon as an
\* iteration of the episode, the one of the loss included, has seen
\* now - t0 >= grace.
C8_StopOnFirstTickAtBoundary ==
    [][TickTaken /\ ~last'.presence /\ loss'.t0 # NoTime
          => (last'.stopped <=>
                 clock' - loss'.t0 >= grace /\ ~loss.reached)]_vars

\* C8 amended: the stop fires on the first iteration after the one of the
\* loss that sees now - t0 >= grace, on no earlier and on no later one.
C8_StopOnFirstLaterTickAtBoundary ==
    [][TickTaken /\ ~last'.presence /\ loss.t0 # NoTime
          => (last'.stopped <=>
                 clock' - loss.t0 >= grace /\ ~loss.reached)]_vars

\* the stop fired on an iteration where now - t0 equals grace exactly
C8_Witness ==
    /\ last.stopped /\ grace > 0
    /\ loss.t0 # NoTime /\ clock - loss.t0 = grace

\* C9 as stated: scenario A opens one session at tick 2 and closes it at
\* tick 8.
C9_ScenarioAStopsAtTick8 ==
    scenA = Len(ScenarioA)
        => starts = 1 /\ stops = 1 /\ scenAStart = 2 /\ scenAStop = 8

\* C9 amended: scenario A opens one session at tick 2 and closes it at
\* tick 7, the first tick three seconds after the loss at tick 4.
C9_ScenarioAStopsAtTick7 ==
    /\ scenA = Len(ScenarioA)
         => /\ starts = 1 /\ stops = 1 /\ fails = 0
            /\ scenAStart = 2 /\ scenAStop = 7
            /\ Len(releases) = 1
    /\ scenA \in 2..6 => starts = 1 /\ stops = 0 /\ scenAStart = 2

\* scenario A ran through its nine ticks
C9_Witness == scenA = Len(ScenarioA) /\ tickNo = 9 /\ clock = 9

\* C10: an iteration writes its frame exactly when a session is open after
\* its transition, and it writes to the sink of that session.
C10_WriteIffSessionOpen ==
    tickNo > 0 /\ pc # "done" =>
        /\ last.wrote <=> OpenSinks(releases) # {}
        /\ last.wrote => last.sink = out /\ last.sink \in OpenSinks(releases)
        /\ last.started => last.wrote
        /\ last.phase = "Recording" => last.wrote
        /\ last.phase = "StopPending" /\ ~last.stopped => last.wrote
        /\ last.stopped => ~last.wrote
        /\ last.failed => ~last.wrote
        /\ last.phase = "Idle" /\ ~last.presence => ~last.wrote

\* a frame was written inside the grace period
C10_Witness ==
    /\ last.wrote /\ ~last.presence /\ last.phase = "StopPending"
    /\ pc = "loop" /\ clock > detection_stopped_time

\* C11: with a grace period of at least one second (the configured one is
\* 5) and a non-decreasing clock, no two sessions that started are given the
\* same file name.
C11_FileNamesUnique ==
    grace >= 1 =>
        /\ Len(names) = Len(releases)
        /\ \A i, j \in 1..Len(names) : i # j => names[i] # names[j]

\* a second session started under the configured grace period
C11_Witness ==
    /\ grace = SECONDS_TO_RECORD_AFTER_DETECTION
    /\ Len(names) >= 2 /\ starts = 2

\* C12: the stored loss time is the time of the tick where presence was
\* lost in the current episode: later ticks without presence do not move it,
\* a new loss after presence came back stores the time of that tick, and a
\* stop compares with the loss time of its own episode.
C12_LossTimeOfCurrentEpisode ==
    /\ [](timer_started
            => loss.t0 # NoTime /\ detection_stopped_time = loss.t0)
    /\ [][TickTaken /\ ~last'.presence /\ timer_started /\ ~last'.stopped
            => /\ detection_stopped_time' = detection_stopped_time
               /\ loss'.t0 = loss.t0]_vars
    /\ [][TickTaken /\ ~last'.presence /\ detection /\ ~timer_started
            => /\ detection_stopped_time' = clock'
               /\ loss'.t0 = clock']_vars
    /\ [][TickTaken /\ last'.stopped
            => /\ timer_started
               /\ detection_stopped_time = loss.t0
               /\ clock' - loss.t0 >= grace]_vars

\* scenario B: presence was lost, came back and was lost again at this tick
C12_Witness ==
    /\ scenB = Len(ScenarioB) /\ tickNo = Len(ScenarioB)
    /\ timer_started
    /\ detection_stopped_time = clock /\ loss.t0 = clock /\ clock >= 2

\* C13: a tick with presence while the timer is armed disarms the timer and
\* keeps the session recording, however long ago presence was lost; a stop
\* happens only on a tick without presence.
C13_PresenceAlwaysDisarms ==
    /\ [][TickTaken /\ last'.presence /\ timer_started
            => /\ ~timer_started' /\ detection'
               /\ out' = out /\ out' \in OpenSinks(releases')
               /\ stops' = stops /\ releases' = releases
               /\ ~last'.stopped /\ last'.wrote]_vars
    /\ [][TickTaken /\ (stops' > stops
                       \/ OpenSinks(releases) \ OpenSinks(releases') # {})
            => ~last'.presence]_vars

\* presence came back exactly grace after the loss and the session goes on
C13_Witness ==
    /\ last.presence /\ last.phase = "StopPending"
    /\ grace > 0 /\ clock - detection_stopped_time = grace
    /\ detection /\ ~timer_started /\ last.wrote /\ stops = 0

\* C14: the first tick without presence while recording arms the timer,
\* writes the frame and does not stop, whatever the grace period; a stop
\* follows a tick that was without presence as well.
C14_FirstAbsentTickOnlyArms ==
    /\ [][TickTaken /\ ~last'.presence /\ detection /\ ~timer_started
            => /\ timer_started' /\ detection'
               /\ detection_stopped_time' = clock'
               /\ out' = out /\ out' \in OpenSinks(releases')
               /\ stops' = stops /\ releases' = releases
               /\ ~last'.stopped /\ last'.wrote]_vars
    /\ [][TickTaken /\ last'.stopped
            => tickNo >= 1 /\ ~last.presence /\ ~last'.presence]_vars

\* with a grace period of 0 the tick that lost presence armed the timer and
\* wrote its frame
C14_Witness ==
    /\ grace = 0
    /\ ~last.presence /\ last.phase = "Recording"
    /\ timer_started /\ detection /\ last.wrote /\ ~last.stopped
    /\ out \in OpenSinks(releases)

\* C15 as stated: detection_stopped_time is set exactly when the timer is
\* armed.
C15_LossTimeSetIffArmed ==
    (detection_stopped_time # NoTime) <=> timer_started

\* C15 amended: detection_stopped_time is set whenever the timer is armed and
\* is None until the first session; it is never cleared, so after a disarm
\* or a stop it keeps the time of the latest loss.
C15_LossTimeSetWhileArmed ==
    /\ [](timer_started
            => detection_stopped_time # NoTime
               /\ detection_stopped_time <= clock)
    /\ [](starts = 0 => detection_stopped_time = NoTime)
    /\ [][detection_stopped_time # NoTime
            => /\ detection_stopped_time' # NoTime
               /\ (~timer_started' \/ timer_started
                      => detection_stopped_time' = detection_stopped_time)]_vars

\* Idle after a stop, the time of the loss still stored
C15_Witness ==
    /\ ~detection /\ ~timer_started /\ out = NoSink /\ stops >= 1
    /\ detection_stopped_time # NoTime

\* C16: the flags are always in one of the combinations Idle, Recording,
\* StopPending (never timer_started without detection), a held sink is
\* open, and every tick moves between them as the three-state machine does.
C16_ThreeStateMachine ==
    /\ [](Phase(detection, timer_started, out)
             \in {"Idle", "Recording", "StopPending"})
    /\ [](~(timer_started /\ ~detection))
    /\ [](pc # "done" /\ out # NoSink => OpenSinks(releases) = {out})
    /\ [][TickTaken =>
            LET from == Phase(detection, timer_started, out)
                to == Phase(detection', timer_started', out')
                elapsed == clock' - detection_stopped_time >= grace
            IN  /\ last'.phase = from
                /\ to = CASE from = "Idle" ->
                               IF last'.presence /\ last'.opened
                               THEN "Recording" ELSE "Idle"
                          [] from = "Recording" ->
                               IF last'.presence
                               THEN "Recording" ELSE "StopPending"
                          [] from = "StopPending" ->
                               IF last'.presence THEN "Recording"
                               ELSE IF elapsed THEN "Idle"
                               ELSE "StopPending"
                          [] OTHER -> "none"]_vars

\* the second session lost presence: every transition of the machine was taken
C16_Witness ==
    /\ stops >= 1 /\ fails >= 1
    /\ last.phase = "Recording"
    /\ Phase(detection, timer_started, out) = "StopPending"

\* C17: once presence stays away while a session is open, and iterations in
\* later seconds keep happening, the session is stopped and its sink
\* released; the controller is Idle again.
C17_EventuallyStopped ==
    (gone.on /\ gone.open # {})
        ~> (/\ gone.open \cap OpenSinks(releases) = {}
            /\ \A i \in gone.open : releases[i] = 1
            /\ ~detection /\ ~timer_started /\ out = NoSink)

\* presence vanished during a session and the session was stopped afterwards
C17_Witness ==
    /\ gone.on /\ gone.open # {} /\ OpenSinks(releases) = {}
    /\ ~detection /\ stops = starts
    /\ grace = SECONDS_TO_RECORD_AFTER_DETECTION

\* C18: find_camera tries the indices in ascending order and releases every
\* capture that did not open before it tries the next; it returns the
\* lowest index that opens, holding that capture only; when no index opens
\* it returns (None, None) holding nothing, and main exits without a loop
\* iteration and without a sink.
C18_FindCamera ==
    /\ \A k \in 1..Len(cam.tried) : cam.tried[k] = k - 1
    /\ Cardinality(CapsHeld(cam)) <= 1
    /\ pc = "find_camera" =>
          /\ Len(cam.tried) = cam.i
          /\ CapsHeld(cam) = {}
          /\ \A k \in 0..(cam.i - 1) : k \notin cam.working
    /\ cam.returned /\ cam.idx # NoCamera =>
          /\ cam.idx \in cam.working
          /\ \A k \in cam.working : cam.idx <= k
          /\ Len(cam.tried) = cam.idx + 1
          /\ CapsHeld(cam) = {cam.idx}
          /\ pc \in {"load_cascades", "loop", "exit"}
    /\ cam.returned /\ cam.idx = NoCamera =>
          /\ cam.working = {}
          /\ Len(cam.tried) = MAX_CAMERA_INDEX + 1
          /\ CapsHeld(cam) = {}
          /\ pc = "exit"
          /\ ~ENABLED Next
          /\ tickNo = 0 /\ releases = <<>> /\ out = NoSink

\* index 3 opened after the captures 0, 1 and 2 were released
C18_Witness ==
    /\ pc = "loop" /\ cam.returned /\ cam.idx = 3
    /\ cam.released = {0, 1, 2} /\ cam.working = {3, 5}
====
